---- MODULE Spec2Model ----
(***************************************************************************)
(* Session protocol engine of the NodeMCU fingerprint attendance client    *)
(* (src/src/main.cpp): the dispatcher loop(), disconnectFromServer(),      *)
(* enrollFinger() / getFingerprintEnroll() and scanFinger() /              *)
(* getFingerprintID(), run against a server that sends lines and a sensor  *)
(* that answers every request with one of its result codes.                *)
(*                                                                         *)
(* A line is the sequence of its characters without the terminator, so     *)
(* that String::toInt and Print::println(number) are computed on digits.   *)
(* client.readStringUntil('\n') is the session's blocking line read: it    *)
(* takes the oldest pending line and waits while none is pending.          *)
(***************************************************************************)
EXTENDS Integers, Sequences, FiniteSets, TLC

\* ------------------------------------------------------------------ bounds
\* dispatcher ticks explored
MaxTicks == 3
\* server transmissions explored
MaxSends == 2

\* ------------------------------------------------------- lines of the wire
L_disconnect == <<"d","i","s","c","o","n","n","e","c","t">>
L_reboot == <<"r","e","b","o","o","t">>
L_enroll == <<"e","n","r","o","l","l">>
L_enrollFinger == <<"e","n","r","o","l","l","F","i","n","g","e","r">>
L_scanFinger == <<"s","c","a","n","F","i","n","g","e","r">>
L_OK == <<"O","K">>
\* the greeting connectToServer() prints
L_greeting == <<"C","l","i","e","n","t"," ","c","o","n","n","e","c","t","e","d"," ",
                "s","u","c","c","e","s","s","f","u","l","l","y","."," ","/","/"," ",
                "H","e","l","l","o"," ","S","e","r","v","e","r"," ","/","/"," ">>

\* lines a server may send that are no command of the dispatcher
L_Enroll == <<"E","n","r","o","l","l">>
L_NO == <<"N","O">>
L_Ana == <<"A","n","a">>

\* slot id lines a server may put at the head of an enrollment record
IdLines == { <<"4","2">>, <<"3","0","0">>, <<"x","7">>, <<"7","x">> }
\* the 7 metadata lines of an enrollment record: one with 7 different fields,
\* one with an empty field and fields that spell words of the protocol
Metadata == { << <<"A","n","a">>, <<"B">>, <<"C","r","u","z">>, <<"2","1">>,
                 <<"F">>, <<"0","9","1","7">>, <<"C","e","b","u">> >>,
              << L_OK, <<>>, L_disconnect, <<"7">>, <<"M">>, <<"1">>, L_reboot >> }
\* the records a server sends: every id line, the numeric ones with the first
\* metadata, the others with the second
EnrollRecords ==
    { r \in { <<i>> \o m : i \in IdLines, m \in Metadata } :
        (r[1] \in { <<"4","2">>, <<"7","x">> }) <=> (r[2] = L_Ana) }
\* single lines a server may send at any time
ServerLines == { L_disconnect, L_reboot, L_enroll, L_OK, L_NO, L_Ana, L_Enroll }
\* ids the sensor may report for a match (finger_scanner.fingerID)
FingerIds == { 7 }

\* ------------------------------------------------- sensor result vocabulary
GetImageCodes == { "OK", "NOFINGER", "PACKETRECIEVEERR", "IMAGEFAIL", "UNKNOWN" }
Image2TzCodes == { "OK", "IMAGEMESS", "PACKETRECIEVEERR", "FEATUREFAIL",
                   "INVALIDIMAGE", "UNKNOWN" }
SearchCodes == { "OK", "PACKETRECIEVEERR", "NOTFOUND", "UNKNOWN" }
CreateModelCodes == { "OK", "PACKETRECIEVEERR", "ENROLLMISMATCH", "UNKNOWN" }
StoreModelCodes == { "OK", "PACKETRECIEVEERR", "BADLOCATION", "FLASHERR", "UNKNOWN" }

\* ------------------------------------------------------------ conversions
Digit == <<"0","1","2","3","4","5","6","7","8","9">>
IsDigit(c) == \E d \in 1..10 : Digit[d] = c
DigitVal(c) == (CHOOSE d \in 1..10 : Digit[d] = c) - 1

RECURSIVE SkipSpace(_)
SkipSpace(s) == IF s # <<>> /\ Head(s) = " " THEN SkipSpace(Tail(s)) ELSE s

RECURSIVE LeadingDigits(_, _)
LeadingDigits(s, acc) ==
    IF s = <<>> \/ ~IsDigit(Head(s)) THEN acc
    ELSE LeadingDigits(Tail(s), acc * 10 + DigitVal(Head(s)))

RECURSIVE AllDigits(_, _)
AllDigits(s, acc) ==
    IF s = <<>> THEN acc
    ELSE IF IsDigit(Head(s)) THEN AllDigits(Tail(s), acc * 10 + DigitVal(Head(s)))
    ELSE AllDigits(Tail(s), acc)
toInt_skipsOtherText(s) == AllDigits(s, 0)

\* String::toInt is atol on the buffer: leading blanks, an optional sign, then
\* the leading digits; text without leading digits gives 0.
toInt(s) ==
    LET t == SkipSpace(s) IN
    IF t = <<>> THEN 0
    ELSE IF Head(t) = "-" THEN 0 - LeadingDigits(Tail(t), 0)
    ELSE IF Head(t) = "+" THEN LeadingDigits(Tail(t), 0)
    ELSE LeadingDigits(t, 0)

\* the conversion of the long to the uint8_t id keeps the low 8 bits
ToUint8(n) == n % 256

RECURSIVE ToDec(_)
\* Print::println(number): the decimal digits, with a sign when negative
ToDec(n) ==
    IF n < 0 THEN <<"-">> \o ToDec(0 - n)
    ELSE IF n < 10 THEN <<Digit[n + 1]>>
    ELSE ToDec(n \div 10) \o <<Digit[(n % 10) + 1]>>

\* ------------------------------------------------------------------- state
VARIABLES
    pc,                    \* where the device's single thread is
    is_connected,          \* main.cpp:41
    sockOpen,              \* the WiFiClient holds an open connection
    pin,                   \* level of the trigger input DISCONNECT_BUTTON, 0 or 1
    discon_btn_state,      \* main.cpp:39
    discon_btn_old_state,  \* main.cpp:40
    message,               \* main.cpp:38, the last line the dispatcher read
    scan_mode,             \* main.cpp:43
    lcd,                   \* the two lines last given to displayText
    fields,                \* enrollFinger: the lines read so far, in order
    id,                    \* enrollFinger: uint8_t id
    fingerprint_id,        \* scanFinger: int fingerprint_id
    feedback,              \* the feedback line last read
    inbound,               \* lines sent by the server, not yet read
    written,               \* lines the device wrote to the server, in order
    sent,                  \* server transmissions so far
    ticks,                 \* dispatcher ticks started so far
    netlog,                \* session life-cycle steps, in the order taken
    tickLog,               \* reads and writes of the current tick, in order
    scanCalls,             \* scanFinger invocations in the current tick
    scan_p,                \* codes the sensor gave the last getFingerprintID
    trigDisc,              \* the trigger called disconnectFromServer this tick
    prevLevel,             \* trigger level read by the previous tick
    noopDisc,              \* disconnectFromServer was called while disconnected
    retried,               \* an attempt of the current enrollment failed
    failedNow,             \* the last sensor step made getFingerprintEnroll return 0
    ops,                   \* sensor calls of the current attempt that ended a wait
                           \* loop or were made once: << name, argument, code >>
    sensorUsed,            \* the current enrollment has called the sensor
    storedAt               \* slot given to the last successful storeModel

vars == << pc, is_connected, sockOpen, pin, discon_btn_state, discon_btn_old_state,
           message, scan_mode, lcd, fields, id, fingerprint_id, feedback,
           inbound, written, sent, ticks, netlog, tickLog, scanCalls, scan_p,
           trigDisc, prevLevel, noopDisc, retried, failedNow, ops, sensorUsed,
           storedAt >>

\* displayText(firstLine, secondLine)
displayText(a, b) == [l1 |-> a, l2 |-> b]

\* the state setup() leaves: connected, greeting written, trigger never read
Init ==
    /\ pc = "loop"
    /\ is_connected = TRUE
    /\ sockOpen = TRUE
    /\ pin \in { 0, 1 }
    /\ discon_btn_state = 0
    /\ discon_btn_old_state = 0
    /\ message = <<>>
    /\ scan_mode = 0
    /\ lcd = displayText("  Scan  Finger  ", "  conn Server.   ")
    /\ fields = <<>>
    /\ id = 0
    /\ fingerprint_id = -1
    /\ feedback = <<>>
    /\ inbound = <<>>
    /\ written = << L_greeting >>
    /\ sent = 0
    /\ ticks = 0
    /\ netlog = <<>>
    /\ tickLog = <<>>
    /\ scanCalls = 0
    /\ scan_p = <<>>
    /\ trigDisc = FALSE
    /\ prevLevel = 0
    /\ noopDisc = FALSE
    /\ retried = FALSE
    /\ failedNow = FALSE
    /\ ops = <<>>
    /\ sensorUsed = FALSE
    /\ storedAt = -1

\* ----------------------------------------------------------------- helpers
Blank16 == "                "

\* scanAnimation(): the first line depends on scan_mode (the sprite cursor of
\* the second line is display-only and left out)
scanAnimation(mode) ==
    IF mode = 0 THEN displayText("Scan Your Finger", Blank16)
    ELSE displayText(" Enroll  Finger ", Blank16)

\* client.available(): bytes pending on an open connection
available == sockOpen /\ inbound # <<>>

Rd(l) == <<"rd", l>>
Wr(l) == <<"wr", l>>
RECURSIVE WrAll(_)
WrAll(ls) == IF ls = <<>> THEN <<>> ELSE <<Wr(Head(ls))>> \o WrAll(Tail(ls))

\* the command comparisons of loop(): String == is exact and case-sensitive
LowerChar(c) ==
    CASE c = "E" -> "e" [] c = "D" -> "d" [] c = "R" -> "r" [] OTHER -> c
IsCommand_ignoreCase(m, c) ==
    /\ Len(m) = Len(c)
    /\ \A i \in 1..Len(m) : LowerChar(m[i]) = LowerChar(c[i])
IsCommand(m, c) == m = c

\* the edge test of loop(): the level changed and is now high
RisingEdge(new, old) == new # old /\ new = 1

\* the steps disconnectFromServer() takes on a connected session, in order
DisconnectSteps == << "farewell", "flush", "stop", "flag_cleared" >>
\* what the reboot branch does after disconnectFromServer()
RebootSteps == << "wifi_disconnect", "restart" >>

\* disconnectFromServer(), called with the tick log and the pending lines as
\* they are at the call, and the life-cycle steps the caller takes right after
disconnectFromServer_unguarded(log, q, after) ==
    /\ written' = Append(written, L_disconnect)
    /\ tickLog' = Append(log, Wr(L_disconnect))
    /\ netlog' = netlog \o DisconnectSteps \o after
    /\ sockOpen' = FALSE
    /\ is_connected' = FALSE
    /\ inbound' = <<>>
    /\ lcd' = displayText("  Disconnected  ", "  please reset  ")
    /\ noopDisc' = (noopDisc \/ ~is_connected)
disconnectFromServer(log, q, after) ==
    IF is_connected
    THEN /\ written' = Append(written, L_disconnect)
         /\ tickLog' = Append(log, Wr(L_disconnect))
         /\ netlog' = netlog \o DisconnectSteps \o after
         /\ sockOpen' = FALSE
         /\ is_connected' = FALSE
         /\ inbound' = <<>>
         /\ lcd' = displayText("  Disconnected  ", "  please reset  ")
         /\ UNCHANGED noopDisc
    ELSE /\ tickLog' = log
         /\ inbound' = q
         /\ netlog' = netlog \o after
         /\ noopDisc' = TRUE
         /\ UNCHANGED << written, sockOpen, is_connected, lcd >>

\* ------------------------------------------------------- dispatcher: loop()
\* main.cpp:573-580, the trigger poll that opens a tick
LoopTrigger ==
    /\ pc = "loop"
    /\ ticks < MaxTicks
    /\ LET lvl == pin IN
         /\ discon_btn_state' = lvl
         /\ IF RisingEdge(lvl, discon_btn_old_state)
            THEN /\ disconnectFromServer(<<>>, inbound, <<>>)
                 /\ trigDisc' = TRUE
            ELSE /\ tickLog' = <<>>
                 /\ trigDisc' = FALSE
                 /\ UNCHANGED << written, netlog, sockOpen, is_connected,
                                 inbound, lcd, noopDisc >>
    /\ prevLevel' = discon_btn_state
    /\ ticks' = ticks + 1
    /\ scanCalls' = 0
    /\ scan_p' = <<>>
    /\ pc' = "dispatch"
    /\ UNCHANGED << pin, discon_btn_old_state, message, scan_mode, fields, id,
                    fingerprint_id, feedback, sent, retried, failedNow, ops,
                    sensorUsed, storedAt >>

\* main.cpp:601-603: the scan step follows the `if (client.available())` block,
\* whatever branch was taken in it
AfterCommandPc_skipScan == "end"
AfterCommandPc == "scan"

\* main.cpp:583, nothing to read
LoopNoData ==
    /\ pc = "dispatch"
    /\ ~available
    /\ pc' = AfterCommandPc
    /\ UNCHANGED << is_connected, sockOpen, discon_btn_state, discon_btn_old_state,
                    message, scan_mode, lcd, fields, id, fingerprint_id, feedback,
                    inbound, written, sent, ticks, pin, netlog, tickLog, scanCalls,
                    scan_p, trigDisc, prevLevel, noopDisc, retried, failedNow, ops, sensorUsed, storedAt >>

\* main.cpp:584-588, the "disconnect" command
LoopDisconnect ==
    /\ pc = "dispatch"
    /\ available
    /\ IsCommand(Head(inbound), L_disconnect)
    /\ message' = Head(inbound)
    /\ disconnectFromServer(Append(tickLog, Rd(Head(inbound))), Tail(inbound), <<>>)
    /\ pc' = AfterCommandPc
    /\ UNCHANGED << discon_btn_state, discon_btn_old_state, scan_mode, fields, id,
                    fingerprint_id, feedback, sent, ticks, pin, scanCalls, scan_p,
                    trigDisc, prevLevel, retried, failedNow, ops, sensorUsed, storedAt >>

\* main.cpp:591-594: the disconnect, then the release of the link and the restart
RebootDisconnect_restartOnly(log, q) ==
    /\ tickLog' = log
    /\ inbound' = q
    /\ netlog' = netlog \o RebootSteps
    /\ UNCHANGED << written, sockOpen, is_connected, lcd, noopDisc >>
RebootDisconnect(log, q) == disconnectFromServer(log, q, RebootSteps)

\* main.cpp:590-595, the "reboot" command: ESP.restart() does not return
LoopReboot ==
    /\ pc = "dispatch"
    /\ available
    /\ ~IsCommand(Head(inbound), L_disconnect)
    /\ IsCommand(Head(inbound), L_reboot)
    /\ message' = Head(inbound)
    /\ RebootDisconnect(Append(tickLog, Rd(Head(inbound))), Tail(inbound))
    /\ pc' = "restarted"
    /\ UNCHANGED << discon_btn_state, discon_btn_old_state, scan_mode, fields, id,
                    fingerprint_id, feedback, sent, ticks, pin, scanCalls, scan_p,
                    trigDisc, prevLevel, retried, failedNow, ops, sensorUsed, storedAt >>

\* main.cpp:597-599 and 475-477, the "enroll" command enters enrollFinger()
LoopEnroll ==
    /\ pc = "dispatch"
    /\ available
    /\ ~IsCommand(Head(inbound), L_disconnect)
    /\ ~IsCommand(Head(inbound), L_reboot)
    /\ IsCommand(Head(inbound), L_enroll)
    /\ message' = Head(inbound)
    /\ tickLog' = Append(tickLog, Rd(Head(inbound)))
    /\ inbound' = Tail(inbound)
    /\ scan_mode' = 1
    /\ lcd' = displayText("   Enrollment   ", "      Mode      ")
    /\ fields' = <<>>
    /\ retried' = FALSE
    /\ failedNow' = FALSE
    /\ ops' = <<>>
    /\ sensorUsed' = FALSE
    /\ pc' = "enroll_read"
    /\ UNCHANGED << is_connected, sockOpen, discon_btn_state, discon_btn_old_state,
                    id, fingerprint_id, feedback, written, sent, ticks, pin, netlog,
                    scanCalls, scan_p, trigDisc, prevLevel, noopDisc, storedAt >>

\* main.cpp:584-600, any other line matches no branch
LoopIgnored ==
    /\ pc = "dispatch"
    /\ available
    /\ ~IsCommand(Head(inbound), L_disconnect)
    /\ ~IsCommand(Head(inbound), L_reboot)
    /\ ~IsCommand(Head(inbound), L_enroll)
    /\ message' = Head(inbound)
    /\ tickLog' = Append(tickLog, Rd(Head(inbound)))
    /\ inbound' = Tail(inbound)
    /\ pc' = AfterCommandPc
    /\ UNCHANGED << is_connected, sockOpen, discon_btn_state, discon_btn_old_state,
                    scan_mode, lcd, fields, id, fingerprint_id, feedback, written,
                    sent, ticks, pin, netlog, scanCalls, scan_p, trigDisc, prevLevel,
                    noopDisc, retried, failedNow, ops, sensorUsed, storedAt >>

\* ------------------------------------------------------ enrollFinger(), I
\* uint8_t id = finger_id_unparsed.toInt()
ParseId(line) == ToUint8(toInt(line))

\* main.cpp:478-485: the number of readStringUntil calls before the acknowledgement
EnrollInputLines_seven == 8 - 1
EnrollInputLines == 8

\* main.cpp:478-488: one blocking line read; the 8th line is followed by the
\* acknowledgement and the parse of the id
EnrollRead ==
    /\ pc = "enroll_read"
    /\ inbound # <<>>
    /\ LET f == Append(fields, Head(inbound)) IN
         /\ fields' = f
         /\ inbound' = Tail(inbound)
         /\ IF Len(f) = EnrollInputLines
            THEN /\ written' = Append(written, L_enrollFinger)
                 /\ tickLog' = tickLog \o << Rd(Head(inbound)), Wr(L_enrollFinger) >>
                 /\ id' = ParseId(f[1])
                 /\ pc' = "acq1"
            ELSE /\ tickLog' = Append(tickLog, Rd(Head(inbound)))
                 /\ UNCHANGED << written, id, pc >>
    /\ UNCHANGED << is_connected, sockOpen, discon_btn_state, discon_btn_old_state,
                    message, scan_mode, lcd, fingerprint_id, feedback, sent, ticks, pin,
                    netlog, scanCalls, scan_p, trigDisc, prevLevel, noopDisc,
                    retried, failedNow, ops, sensorUsed, storedAt >>

\* ------------------------------------------- getFingerprintEnroll(uint8_t id)
\* what changes in a sensor step of the enrollment: the position, the display,
\* and the marks of a failed attempt and of a store
EnrollStep_pollsTrigger(nextPc, nextLcd, failed, slot, calls) ==
    /\ pc' = nextPc
    /\ lcd' = nextLcd
    /\ retried' = (retried \/ failed)
    /\ failedNow' = failed
    /\ storedAt' = slot
    /\ ops' = calls
    /\ sensorUsed' = TRUE
    /\ IF pin = 1
       THEN /\ written' = Append(written, L_disconnect)
            /\ tickLog' = Append(tickLog, Wr(L_disconnect))
            /\ netlog' = netlog \o DisconnectSteps
            /\ sockOpen' = FALSE
            /\ is_connected' = FALSE
            /\ inbound' = <<>>
       ELSE UNCHANGED << written, tickLog, netlog, sockOpen, is_connected, inbound >>
    /\ UNCHANGED << pin, discon_btn_state, discon_btn_old_state, message, scan_mode,
                    fields, id, fingerprint_id, feedback, sent, ticks, scanCalls,
                    scan_p, trigDisc, prevLevel, noopDisc >>
EnrollStep(nextPc, nextLcd, failed, slot, calls) ==
    /\ pc' = nextPc
    /\ lcd' = nextLcd
    /\ retried' = (retried \/ failed)
    /\ failedNow' = failed
    /\ storedAt' = slot
    /\ ops' = calls
    /\ sensorUsed' = TRUE
    /\ UNCHANGED << is_connected, sockOpen, discon_btn_state, discon_btn_old_state,
                    message, scan_mode, fields, id, fingerprint_id, feedback,
                    inbound, written, sent, ticks, pin, netlog, tickLog, scanCalls,
                    scan_p, trigDisc, prevLevel, noopDisc >>

\* where `while (!getFingerprintEnroll(id));` goes when an attempt returns 0
RetryPc_reread == "enroll_read"
RetryPc == "acq1"

\* the exit tests of the wait loops and of the one-shot calls
AcquireDone_anyImage(p) == p \in { "OK", "IMAGEFAIL" }
AcquireDone(p) == p = "OK"
RemovalDone_notOK(p) == p # "OK"
RemovalDone(p) == p = "NOFINGER"
AttemptContinues_mismatchToo(p) == p \in { "OK", "ENROLLMISMATCH" }
AttemptContinues_always(p) == TRUE
AttemptContinues(p) == p = "OK"

\* main.cpp:224-247: first acquire loop, one getImage() per step
EnrollAcquire1 ==
    /\ pc = "acq1"
    /\ \E p \in GetImageCodes :
         IF AcquireDone(p)
         THEN EnrollStep("tz1", displayText("  Image  Taken  ", " please wait... "),
                         FALSE, storedAt, << <<"getImage", 0, p>> >>)
         ELSE EnrollStep("acq1", scanAnimation(scan_mode), FALSE, storedAt, <<>>)

\* main.cpp:250-272: image2Tz(1); every code but OK returns 0
EnrollExtract1 ==
    /\ pc = "tz1"
    /\ \E p \in Image2TzCodes :
         IF AttemptContinues(p)
         THEN EnrollStep("remove", displayText("      ----      ", " Remove Finger  "),
                         FALSE, storedAt, Append(ops, <<"image2Tz", 1, p>>))
         ELSE EnrollStep(RetryPc, displayText("   Processing   ", "    Image...    "),
                         TRUE, storedAt, Append(ops, <<"image2Tz", 1, p>>))

\* main.cpp:278-286: poll until the sensor reports no finger
EnrollRemove ==
    /\ pc = "remove"
    /\ \E p \in GetImageCodes :
         IF RemovalDone(p)
         THEN EnrollStep("acq2", displayText("   Place Same   ", "  Finger again  "),
                         FALSE, storedAt, Append(ops, <<"getImage", 0, p>>))
         ELSE EnrollStep("remove", lcd, FALSE, storedAt, ops)

\* main.cpp:287-308: second acquire loop
EnrollAcquire2 ==
    /\ pc = "acq2"
    /\ \E p \in GetImageCodes :
         IF AcquireDone(p)
         THEN EnrollStep("tz2", displayText("  Image  Taken  ", " please wait... "),
                         FALSE, storedAt, Append(ops, <<"getImage", 0, p>>))
         ELSE EnrollStep("acq2", lcd, FALSE, storedAt, ops)

\* main.cpp:311-334: image2Tz(2)
EnrollExtract2 ==
    /\ pc = "tz2"
    /\ \E p \in Image2TzCodes :
         IF AttemptContinues(p)
         THEN EnrollStep("model", displayText("   Processing   ", "    Image...    "),
                         FALSE, storedAt, Append(ops, <<"image2Tz", 2, p>>))
         ELSE EnrollStep(RetryPc, displayText("   Processing   ", "    Image...    "),
                         TRUE, storedAt, Append(ops, <<"image2Tz", 2, p>>))

\* main.cpp:340-356: createModel()
EnrollCreateModel ==
    /\ pc = "model"
    /\ \E p \in CreateModelCodes :
         CASE AttemptContinues(p) ->
                EnrollStep("store", displayText("  Fingerprints  ", "    Matched     "),
                           FALSE, storedAt, Append(ops, <<"createModel", 0, p>>))
           [] p = "PACKETRECIEVEERR" ->
                EnrollStep(RetryPc, displayText(" Communication  ", "     Error      "),
                           TRUE, storedAt, Append(ops, <<"createModel", 0, p>>))
           [] p = "ENROLLMISMATCH" ->
                EnrollStep(RetryPc, displayText("  Fingerprints  ", " Did Not Match  "),
                           TRUE, storedAt, Append(ops, <<"createModel", 0, p>>))
           [] OTHER ->
                EnrollStep(RetryPc, displayText("    Unknown     ", "     Error      "),
                           TRUE, storedAt, Append(ops, <<"createModel", 0, p>>))

\* main.cpp:361-380: storeModel(id); OK returns 1 to enrollFinger
EnrollStore ==
    /\ pc = "store"
    /\ \E p \in StoreModelCodes :
         IF AttemptContinues(p)
         THEN EnrollStep("send", displayText("  Sending Data  ", "  to Database   "),
                         FALSE, id, Append(ops, <<"storeModel", id, p>>))
         ELSE EnrollStep(RetryPc, lcd, TRUE, storedAt,
                         Append(ops, <<"storeModel", id, p>>))

\* ----------------------------------------------------- enrollFinger(), II
\* main.cpp:491-505: the lines sent after the enrollment succeeded
EnrollReport_idFirst(f, i) ==
    << ToDec(i), f[2], f[3], f[4], f[5], f[6], f[7], f[8] >>
EnrollReport_rawId(f, i) == SubSeq(f, 2, 8) \o << f[1] >>
EnrollReport(f, i) ==
    << f[2], f[3], f[4], f[5], f[6], f[7], f[8], ToDec(i) >>

\* main.cpp:491-507
EnrollSend ==
    /\ pc = "send"
    /\ written' = written \o EnrollReport(fields, id)
    /\ tickLog' = tickLog \o WrAll(EnrollReport(fields, id))
    /\ lcd' = displayText(" Waiting for  ", "  Feedback...   ")
    /\ pc' = "e_feedback"
    /\ UNCHANGED << is_connected, sockOpen, discon_btn_state, discon_btn_old_state,
                    message, scan_mode, fields, id, fingerprint_id, feedback,
                    inbound, sent, ticks, pin, netlog, scanCalls, scan_p, trigDisc,
                    prevLevel, noopDisc, retried, failedNow, ops, sensorUsed, storedAt >>

\* the feedback comparisons: feedback == "OK"
FeedbackOK_nonEmpty(f) == f # <<>>
FeedbackOK(f) == f = L_OK

\* main.cpp:508-516: one blocking read of the feedback line; back in loop()
EnrollFeedback ==
    /\ pc = "e_feedback"
    /\ inbound # <<>>
    /\ feedback' = Head(inbound)
    /\ inbound' = Tail(inbound)
    /\ tickLog' = Append(tickLog, Rd(Head(inbound)))
    /\ lcd' = IF FeedbackOK(Head(inbound))
              THEN displayText("   Enrollment   ", "    Success!    ")
              ELSE displayText("  Enroll Fail!  ", "   Try  Again   ")
    /\ pc' = AfterCommandPc
    /\ UNCHANGED << is_connected, sockOpen, discon_btn_state, discon_btn_old_state,
                    message, scan_mode, fields, id, fingerprint_id, written, sent,
                    ticks, pin, netlog, scanCalls, scan_p, trigDisc, prevLevel,
                    noopDisc, retried, failedNow, ops, sensorUsed, storedAt >>

\* ------------------------------------------- getFingerprintID(), scanFinger()
AllOK == << "OK", "OK", "OK" >>

\* the codes one getFingerprintID() call can get: getImage(), then image2Tz()
\* after OK, then fingerSearch() after OK; the call returns at the first non-OK
ScanOutcomes ==
    { <<p>> : p \in GetImageCodes \ {"OK"} }
    \cup { <<"OK", p>> : p \in Image2TzCodes \ {"OK"} }
    \cup { <<"OK", "OK", p>> : p \in SearchCodes }

\* main.cpp:398-470: -1 unless all three calls returned OK, else fingerID
getFingerprintID_stale(codes, fid) ==
    IF Len(codes) = 3 THEN fid ELSE -1
getFingerprintID(codes, fid) ==
    IF codes = AllOK THEN fid ELSE -1

\* the display getFingerprintID() leaves
ScanLcd(codes, old) ==
    IF codes = AllOK THEN displayText("  Fingerprint   ", "    is found    ")
    ELSE IF codes = << "OK", "OK", "NOTFOUND" >>
         THEN displayText("  Did not Find  ", "     Match      ")
    ELSE IF Len(codes) >= 2 THEN displayText("   Processing   ", "    Image...    ")
    ELSE old

\* main.cpp:603: `if (is_connected)` around the scan step
ScanAllowed_always(conn) == TRUE
ScanAllowed(conn) == conn

\* main.cpp:603 with is_connected false: no scan in this tick
ScanSkipped ==
    /\ pc = "scan"
    /\ ~ScanAllowed(is_connected)
    /\ pc' = "end"
    /\ UNCHANGED << is_connected, sockOpen, discon_btn_state, discon_btn_old_state,
                    message, scan_mode, lcd, fields, id, fingerprint_id, feedback,
                    inbound, written, sent, ticks, pin, netlog, tickLog, scanCalls,
                    scan_p, trigDisc, prevLevel, noopDisc, retried, failedNow, ops, sensorUsed, storedAt >>

\* main.cpp:603-604, 519-525, 540: scanFinger() up to the report or the return
ScanFinger ==
    /\ pc = "scan"
    /\ ScanAllowed(is_connected)
    /\ scan_mode' = 0
    /\ scanCalls' = scanCalls + 1
    /\ \E codes \in ScanOutcomes, fid \in FingerIds :
         LET r == getFingerprintID(codes, fid) IN
         /\ scan_p' = codes
         /\ fingerprint_id' = r
         /\ IF r # -1
            THEN /\ written' = written \o << L_scanFinger, ToDec(r) >>
                 /\ tickLog' = tickLog \o << Wr(L_scanFinger), Wr(ToDec(r)) >>
                 /\ lcd' = displayText("    Logging     ", "   Attendance   ")
                 /\ pc' = "s_feedback"
            ELSE /\ lcd' = ScanLcd(codes, lcd)
                 /\ pc' = "end"
                 /\ UNCHANGED << written, tickLog >>
    /\ UNCHANGED << is_connected, sockOpen, discon_btn_state, discon_btn_old_state,
                    message, fields, id, feedback, inbound, sent, ticks, pin, netlog,
                    trigDisc, prevLevel, noopDisc, retried, failedNow, ops, sensorUsed, storedAt >>

\* main.cpp:527-538: one blocking read of the feedback line
ScanFeedback ==
    /\ pc = "s_feedback"
    /\ inbound # <<>>
    /\ feedback' = Head(inbound)
    /\ inbound' = Tail(inbound)
    /\ tickLog' = Append(tickLog, Rd(Head(inbound)))
    /\ IF FeedbackOK(Head(inbound))
       THEN /\ lcd' = displayText("  Successfully  ", "  Logged to DB  ")
            /\ pc' = "s_name"
       ELSE /\ lcd' = displayText(" Failed logging ", "   Attendance   ")
            /\ pc' = "end"
    /\ UNCHANGED << is_connected, sockOpen, discon_btn_state, discon_btn_old_state,
                    message, scan_mode, fields, id, fingerprint_id, written, sent,
                    ticks, pin, netlog, scanCalls, scan_p, trigDisc, prevLevel,
                    noopDisc, retried, failedNow, ops, sensorUsed, storedAt >>

\* main.cpp:530-533: one blocking read of the display name
ScanName ==
    /\ pc = "s_name"
    /\ inbound # <<>>
    /\ inbound' = Tail(inbound)
    /\ tickLog' = Append(tickLog, Rd(Head(inbound)))
    /\ lcd' = displayText("Welcome:        ", Head(inbound))
    /\ pc' = "end"
    /\ UNCHANGED << is_connected, sockOpen, discon_btn_state, discon_btn_old_state,
                    message, scan_mode, fields, id, fingerprint_id, feedback,
                    written, sent, ticks, pin, netlog, scanCalls, scan_p, trigDisc,
                    prevLevel, noopDisc, retried, failedNow, ops, sensorUsed, storedAt >>

\* main.cpp:607: discon_btn_old_state = discon_btn_state, on every path
OldStateAfterTick_whenConnected(cur, old, conn) == IF conn THEN cur ELSE old
OldStateAfterTick(cur, old, conn) == cur

\* main.cpp:605-607: the animation when connected, then the trigger's old
\* level; the locals of scanFinger() and enrollFinger() are gone
LoopEnd ==
    /\ pc = "end"
    /\ lcd' = IF is_connected THEN scanAnimation(scan_mode) ELSE lcd
    /\ discon_btn_old_state' =
         OldStateAfterTick(discon_btn_state, discon_btn_old_state, is_connected)
    /\ fields' = <<>>
    /\ id' = 0
    /\ fingerprint_id' = -1
    /\ feedback' = <<>>
    /\ retried' = FALSE
    /\ failedNow' = FALSE
    /\ ops' = <<>>
    /\ sensorUsed' = FALSE
    /\ storedAt' = -1
    /\ pc' = "loop"
    /\ UNCHANGED << is_connected, sockOpen, discon_btn_state, message, scan_mode,
                    inbound, written, sent, ticks, pin, netlog, tickLog, scanCalls,
                    scan_p, trigDisc, prevLevel, noopDisc >>

\* ------------------------------------------------------------------ server
ServerVars == << pc, is_connected, sockOpen, discon_btn_state, discon_btn_old_state,
                 message, scan_mode, lcd, fields, id, fingerprint_id, feedback,
                 written, ticks, pin, netlog, tickLog, scanCalls, scan_p, trigDisc,
                 prevLevel, noopDisc, retried, failedNow, ops, sensorUsed, storedAt >>

\* the person at the device presses or releases the trigger, at any time
TriggerChange ==
    /\ pin' = 1 - pin
    /\ UNCHANGED << pc, is_connected, sockOpen, discon_btn_state, discon_btn_old_state,
                    message, scan_mode, lcd, fields, id, fingerprint_id, feedback,
                    inbound, written, sent, ticks, netlog, tickLog, scanCalls,
                    scan_p, trigDisc, prevLevel, noopDisc, retried, failedNow, ops,
                    sensorUsed, storedAt >>

\* the server sends one line while the connection is open
ServerSendLine ==
    /\ sockOpen
    /\ sent < MaxSends
    /\ \E l \in ServerLines : inbound' = Append(inbound, l)
    /\ sent' = sent + 1
    /\ UNCHANGED ServerVars

\* the server sends "enroll" and the 8 lines of an enrollment record in one go
ServerSendEnroll ==
    /\ sockOpen
    /\ sent < MaxSends
    /\ \E rec \in EnrollRecords : inbound' = inbound \o << L_enroll >> \o rec
    /\ sent' = sent + 1
    /\ UNCHANGED ServerVars

\* the line of an enrollment record a server sends when enrollFinger waits
\* for one
FeedLines == { L_OK }

\* positions at which the device's next step polls or reads the session
ReadPcs == { "dispatch", "enroll_read", "e_feedback", "s_feedback", "s_name" }

\* a server that answers: it sends one line when the device polls or waits
\* and the session holds none, a record line while enrollFinger reads its
\* record (main.cpp:478-485), any line otherwise (main.cpp:508, 527, 530, 584)
ServerFeed ==
    /\ pc \in ReadPcs
    /\ sockOpen
    /\ inbound = <<>>
    /\ \E l \in (IF pc = "enroll_read" THEN FeedLines ELSE ServerLines) :
         inbound' = << l >>
    /\ UNCHANGED << ServerVars, sent >>

\* ----------------------------------------------------------- specification
DeviceNext ==
    \/ LoopTrigger
    \/ LoopNoData
    \/ LoopDisconnect
    \/ LoopReboot
    \/ LoopEnroll
    \/ LoopIgnored
    \/ EnrollRead
    \/ EnrollAcquire1
    \/ EnrollExtract1
    \/ EnrollRemove
    \/ EnrollAcquire2
    \/ EnrollExtract2
    \/ EnrollCreateModel
    \/ EnrollStore
    \/ EnrollSend
    \/ EnrollFeedback
    \/ ScanSkipped
    \/ ScanFinger
    \/ ScanFeedback
    \/ ScanName
    \/ LoopEnd

Next ==
    \/ DeviceNext
    \/ TriggerChange
    \/ ServerSendLine
    \/ ServerSendEnroll

Spec == Init /\ [][Next]_vars

\* the same device and trigger with the server that answers
LiveNext ==
    \/ DeviceNext
    \/ TriggerChange
    \/ ServerFeed

\* the device's thread keeps running inside enrollFinger
EnrollRuns ==
    /\ WF_vars(EnrollRead)
    /\ WF_vars(EnrollSend)
    /\ WF_vars(EnrollFeedback)

\* the sensor gives the code a step waits for: a wait loop that is polled
\* forever sees it, a call made once per attempt returns OK in some attempt
SensorAnswers ==
    /\ WF_vars(EnrollAcquire1 /\ pc' = "tz1")
    /\ SF_vars(EnrollExtract1 /\ pc' = "remove")
    /\ WF_vars(EnrollRemove /\ pc' = "acq2")
    /\ WF_vars(EnrollAcquire2 /\ pc' = "tz2")
    /\ SF_vars(EnrollExtract2 /\ pc' = "model")
    /\ SF_vars(EnrollCreateModel /\ pc' = "store")
    /\ SF_vars(EnrollStore /\ pc' = "send")

LiveSpec ==
    Init /\ [][LiveNext]_vars /\ EnrollRuns /\ SensorAnswers /\ WF_vars(ServerFeed)

\* ================================================================== claims
RECURSIVE RdAll(_)
RdAll(ls) == IF ls = <<>> THEN <<>> ELSE <<Rd(Head(ls))>> \o RdAll(Tail(ls))

\* positions of getFingerprintEnroll() and of the send that follows it
EnrollSensorPcs == { "acq1", "tz1", "remove", "acq2", "tz2", "model", "store", "send" }
\* positions of loop() after enrollFinger() returned
AfterEnrollPcs == { "scan", "s_feedback", "s_name", "end" }

\* the tick log of an enrollment up to the acknowledgement
EnrollHead == << Rd(L_enroll) >> \o RdAll(fields) \o << Wr(L_enrollFinger) >>
\* ... and up to the id line, with the metadata as read and the slot stored
EnrollFull ==
    EnrollHead \o WrAll(SubSeq(fields, 2, 8)) \o << Wr(ToDec(storedAt)) >>

\* C1: in an enroll transaction whose captures, match and store succeeded, the
\* device's traffic from the "enroll" command on is: the 8 lines read, then
\* "enrollFinger", the 7 metadata lines as read and in that order, and the slot
\* id the model was stored at, with nothing else in between; the feedback line
\* is the next thing read, after the id line was written.
C1_EnrollReportOrder ==
    /\ pc \in EnrollSensorPcs => (Len(fields) = 8 /\ tickLog = EnrollHead)
    /\ pc = "e_feedback" => (Len(fields) = 8 /\ tickLog = EnrollFull)
    /\ (pc \in AfterEnrollPcs /\ Len(fields) = 8) =>
          /\ Len(tickLog) >= Len(EnrollFull) + 1
          /\ SubSeq(tickLog, 1, Len(EnrollFull)) = EnrollFull
          /\ tickLog[Len(EnrollFull) + 1][1] = "rd"
C1_Witness ==
    /\ pc = "e_feedback"
    /\ Len(fields) = 8
    /\ fields[1] = << "4", "2" >>
    /\ written[Len(written)] = << "4", "2" >>
    /\ Len(tickLog) = 18

Count(seq, x) == Cardinality({ i \in 1..Len(seq) : seq[i] = x })

\* C3: the farewell line is written at most once and the socket is closed at
\* most once over the run; a disconnect invoked on a disconnected session
\* leaves the flag false and adds neither a farewell nor a close.
C3_DisconnectIdempotent ==
    /\ Count(netlog, "farewell") <= 1
    /\ Count(netlog, "stop") <= 1
    /\ is_connected <=> Count(netlog, "stop") = 0
    /\ sockOpen <=> is_connected
    /\ ~is_connected =>
          /\ Count(netlog, "farewell") = 1
          /\ written[Len(written)] = L_disconnect
    /\ noopDisc => ~is_connected
C3_Witness ==
    noopDisc /\ ~is_connected /\ Count(netlog, "stop") = 1

\* C4: a line read by the dispatcher that is none of "disconnect", "reboot",
\* "enroll" leaves the flag and the socket as they are, writes nothing, and
\* the tick goes on to its scan step.
C4_UnrecognizedIgnored ==
    [][ ( /\ pc = "dispatch"
          /\ pc' # "dispatch"
          /\ available
          /\ Head(inbound) \notin { L_disconnect, L_reboot, L_enroll } )
        => ( /\ is_connected' = is_connected
             /\ sockOpen' = sockOpen
             /\ written' = written
             /\ netlog' = netlog
             /\ inbound' = Tail(inbound)
             /\ pc' = "scan" ) ]_vars
C4_Witness ==
    /\ pc = "scan"
    /\ message = L_Enroll
    /\ tickLog = << Rd(L_Enroll) >>
    /\ is_connected

\* C5: a scan whose acquire, extract or search did not return OK writes
\* nothing and reads nothing; "scanFinger" and the id are written exactly when
\* all three returned OK.
C5_NoResultNoTraffic ==
    [][ (pc = "scan" /\ pc' # "scan")
        => IF is_connected /\ scan_p' = AllOK
           THEN /\ written' = written \o << L_scanFinger, ToDec(fingerprint_id') >>
                /\ inbound' = inbound
           ELSE /\ written' = written
                /\ inbound' = inbound
                /\ tickLog' = tickLog
                /\ pc' = "end" ]_vars
C5_Witness ==
    /\ pc = "end"
    /\ scan_p = << "OK", "OK", "NOTFOUND" >>
    /\ tickLog = <<>>
    /\ written = << L_greeting >>

\* index of the last line the device wrote in this tick, 0 when none
LastWr == LET W == { i \in 1..Len(tickLog) : tickLog[i][1] = "wr" } IN
          IF W = {} THEN 0 ELSE CHOOSE i \in W : \A j \in W : j <= i
\* the lines read in this tick after the last write
ReadAfterReport == SubSeq(tickLog, LastWr + 1, Len(tickLog))

\* C6: after a scan report the device reads exactly one feedback line; when it
\* is "OK" it reads exactly one more line and shows it as the welcome name;
\* any other feedback shows the failure text and nothing more is read.
C6_ScanFeedback ==
    /\ (pc = "s_feedback" \/ (pc \in {"s_name", "end"} /\ scan_p = AllOK)) =>
          /\ LastWr >= 2
          /\ tickLog[LastWr - 1] = Wr(L_scanFinger)
          /\ tickLog[LastWr] = Wr(ToDec(fingerprint_id))
    /\ pc = "s_feedback" => ReadAfterReport = <<>>
    /\ pc = "s_name" => ReadAfterReport = << Rd(L_OK) >>
    /\ (pc = "end" /\ scan_p = AllOK) =>
          /\ Len(ReadAfterReport) >= 1
          /\ IF ReadAfterReport[1] = Rd(L_OK)
             THEN /\ Len(ReadAfterReport) = 2
                  /\ lcd.l1 = "Welcome:        "
                  /\ lcd.l2 = ReadAfterReport[2][2]
             ELSE /\ Len(ReadAfterReport) = 1
                  /\ lcd = displayText(" Failed logging ", "   Attendance   ")
C6_Witness ==
    /\ pc = "end"
    /\ scan_p = AllOK
    /\ ReadAfterReport = << Rd(L_OK), Rd(L_Ana) >>
    /\ lcd.l1 = "Welcome:        "
    /\ lcd.l2 = L_Ana

\* C7: the restart a "reboot" command causes comes after the farewell line,
\* the flush, the close and the clearing of the flag, then the release of the
\* network link, in that order, and no scan runs between command and restart.
C7_RebootAfterDisconnect ==
    pc = "restarted" =>
       /\ netlog = << "farewell", "flush", "stop", "flag_cleared",
                      "wifi_disconnect", "restart" >>
       /\ tickLog = << Rd(L_reboot), Wr(L_disconnect) >>
       /\ written[Len(written)] = L_disconnect
       /\ ~is_connected
       /\ ~sockOpen
       /\ scanCalls = 0
C7_Witness == pc = "restarted" /\ message = L_reboot

\* the number a line of digits denotes
IsNumeral(s) == s # <<>> /\ \A i \in 1..Len(s) : IsDigit(s[i])
NumVal(s) == LeadingDigits(s, 0)

\* C8: the id line sent after a successful enrollment denotes the number of
\* the numeric slot id line received.
C8_IdLineRoundTrip ==
    (pc = "e_feedback" /\ IsNumeral(fields[1])) =>
       /\ IsNumeral(written[Len(written)])
       /\ NumVal(written[Len(written)]) = NumVal(fields[1])

\* C9: a tick runs the scan once when the session is connected at its scan
\* step, whatever command it handled, and not at all when the session was
\* disconnected in that tick or before it.
C9_ScanOncePerTick ==
    /\ scanCalls <= 1
    /\ pc \in { "dispatch", "enroll_read", "e_feedback", "scan", "restarted" }
          => scanCalls = 0
    /\ pc \in EnrollSensorPcs => scanCalls = 0
    /\ pc \in { "s_feedback", "s_name" } => (scanCalls = 1 /\ is_connected)
    /\ (pc = "end" \/ (pc = "loop" /\ ticks > 0))
          => scanCalls = (IF is_connected THEN 1 ELSE 0)
C9_Witness ==
    /\ pc = "end"
    /\ scanCalls = 1
    /\ Len(tickLog) >= 19
    /\ tickLog[1] = Rd(L_enroll)

\* C10: the trigger calls the disconnect in a tick exactly when the level it
\* read is high and the level read by the previous tick was low (low before
\* the first tick); the session is then closed before any line is read in
\* that tick.
C10_TriggerRisingEdge ==
    /\ trigDisc <=> (ticks > 0 /\ discon_btn_state = 1 /\ prevLevel = 0)
    /\ trigDisc =>
          /\ ~is_connected
          /\ ~sockOpen
          /\ \A i \in 1..Len(tickLog) : tickLog[i][1] # "rd"
C10_Witness ==
    /\ trigDisc
    /\ ticks = 2
    /\ tickLog = << Wr(L_disconnect) >>
    /\ pc = "dispatch"

\* the line begins with no number: after blanks and a sign there is no digit
NoLeadingNumber(s) ==
    LET t == SkipSpace(s)
        u == IF t # <<>> /\ Head(t) \in { "-", "+" } THEN Tail(t) ELSE t
    IN  u = <<>> \/ ~IsDigit(Head(u))

AttemptCalls(slot) ==
    << <<"getImage", 0, "OK">>, <<"image2Tz", 1, "OK">>, <<"getImage", 0, "NOFINGER">>,
       <<"getImage", 0, "OK">>, <<"image2Tz", 2, "OK">>, <<"createModel", 0, "OK">>,
       <<"storeModel", slot, "OK">> >>

CallsAtPc ==
    [ x \in { "tz1", "remove", "acq2", "tz2", "model", "store", "send" } |->
        CASE x = "tz1" -> 1 [] x = "remove" -> 2 [] x = "acq2" -> 3 [] x = "tz2" -> 4
          [] x = "model" -> 5 [] x = "store" -> 6 [] OTHER -> 7 ]

\* C12: within one attempt the sensor calls that end a wait or are made once are
\* a prefix of getImage (OK), image2Tz(1), getImage (NOFINGER), getImage (OK),
\* image2Tz(2), createModel, storeModel(id); every call before the last returned
\* the code that lets the attempt go on, so createModel follows two OK
\* extractions and storeModel follows an OK createModel; a call of image2Tz,
\* createModel or storeModel that returned another code is the last call of
\* its attempt and the attempt has failed.
C12_SensorOrder ==
    /\ Len(ops) <= 7
    /\ \A k \in 1..Len(ops) :
          /\ ops[k][1] = AttemptCalls(id)[k][1]
          /\ ops[k][2] = AttemptCalls(id)[k][2]
          /\ k < Len(ops) => ops[k] = AttemptCalls(id)[k]
    /\ pc \in DOMAIN CallsAtPc =>
          /\ Len(ops) = CallsAtPc[pc]
          /\ ops[Len(ops)] = AttemptCalls(id)[Len(ops)]
          /\ ~failedNow
    /\ (ops # <<>> /\ ops[Len(ops)] # AttemptCalls(id)[Len(ops)]) =>
          /\ Len(ops) \in { 2, 5, 6, 7 }
          /\ failedNow
          /\ pc = "acq1"
    /\ failedNow =>
          /\ ops # <<>>
          /\ ops[Len(ops)][3] # "OK"

C12_Witness ==
    /\ pc = "acq1"
    /\ failedNow
    /\ Len(ops) = 6
    /\ ops[6] = <<"createModel", 0, "ENROLLMISMATCH">>

\* C13: a step of the enrollment after the acknowledgement writes to the
\* server only when the attempt in progress went through all seven calls and
\* storeModel returned OK, and what it writes is the 7 metadata lines and the
\* slot id; a step that ends an attempt with a failure code writes nothing.
C13_ReportOnlyAfterStore ==
    [][ /\ (pc \in EnrollSensorPcs /\ written' # written) =>
              /\ pc = "send"
              /\ ops = AttemptCalls(id)
              /\ ~failedNow
              /\ tickLog = EnrollHead
              /\ written' = written \o EnrollReport(fields, id)
        /\ (pc \in EnrollSensorPcs /\ failedNow') =>
              /\ written' = written
              /\ tickLog' = tickLog ]_vars

\* the report was written by an enrollment in which an earlier attempt failed
C13_Witness ==
    /\ pc = "e_feedback"
    /\ retried
    /\ ops = AttemptCalls(id)
    /\ tickLog = EnrollFull

\* C14: while the device reads the lines of an "enroll" command it has read
\* fewer than 8, written nothing and called no sensor operation; once a sensor
\* operation of the enrollment was called the tick's traffic begins with the
\* command, exactly 8 lines read, and then "enrollFinger"; the first of the 8
\* lines is the one parsed as the slot id.
C14_ReadEightThenAck ==
    /\ pc = "enroll_read" =>
          /\ ~sensorUsed
          /\ Len(fields) < 8
          /\ tickLog = << Rd(L_enroll) >> \o RdAll(fields)
    /\ pc \in EnrollSensorPcs =>
          /\ Len(fields) = 8
          /\ tickLog = EnrollHead
          /\ id = ParseId(fields[1])
    /\ sensorUsed =>
          /\ Len(fields) = 8
          /\ Len(tickLog) >= 10
          /\ SubSeq(tickLog, 1, 10) = EnrollHead

C14_Witness ==
    /\ pc = "tz1"
    /\ sensorUsed
    /\ tickLog = EnrollHead
    /\ fields[2] = L_Ana

\* C15: the removal wait is left only by a getImage that returned NOFINGER,
\* and it is left for the second acquire loop; so in every attempt that has
\* reached the second capture the call between image2Tz(1) returning OK and
\* the second capture's image is a getImage that reported NOFINGER.
C15_RemovalSeesNoFinger ==
    [][ /\ (pc = "remove" /\ pc' # "remove") =>
              /\ pc' = "acq2"
              /\ ops' = Append(ops, <<"getImage", 0, "NOFINGER">>)
        /\ (pc = "remove" /\ pc' = "remove") => ops' = ops
        /\ pc' \in { "acq2", "tz2", "model", "store", "send" } =>
              /\ Len(ops') >= 3
              /\ ops'[2] = <<"image2Tz", 1, "OK">>
              /\ ops'[3] = <<"getImage", 0, "NOFINGER">>
              /\ Len(ops') >= 4 => ops'[4] = <<"getImage", 0, "OK">> ]_vars

C15_Witness ==
    /\ pc = "tz2"
    /\ Len(ops) = 4
    /\ ops[3] = <<"getImage", 0, "NOFINGER">>
    /\ lcd.l1 = "  Image  Taken  "

\* positions inside enrollFinger(), from its first read to its feedback read
EnrollPcs == { "enroll_read", "e_feedback" } \cup EnrollSensorPcs

\* C16: whatever the trigger input does, a step taken while enrollFinger runs
\* leaves the connected flag true and the socket open, adds no farewell and no
\* close, and does not read the trigger; the session is closed without a
\* command only by the trigger poll that opens a tick, and that poll closes
\* the session of a connected device exactly when the level it reads is high.
C16_EnrollNotInterrupted ==
    [][ /\ pc \in EnrollPcs =>
              /\ is_connected /\ sockOpen
              /\ is_connected' /\ sockOpen'
              /\ netlog' = netlog
              /\ discon_btn_state' = discon_btn_state
              /\ trigDisc' = trigDisc
        /\ (is_connected /\ ~is_connected' /\ pc # "dispatch") =>
              /\ pc = "loop"
              /\ pin = 1
              /\ trigDisc'
        /\ (pc = "loop" /\ pc' = "dispatch" /\ is_connected) =>
              (is_connected' <=> pin = 0) ]_vars

\* the trigger is high while an enrollment that already retried waits for its
\* feedback, and the session is still open
C16_Witness ==
    /\ pc = "e_feedback"
    /\ pin = 1
    /\ discon_btn_state = 0
    /\ retried
    /\ is_connected
    /\ sockOpen

\* C17: enrollFinger is left only from its feedback read, after an attempt
\* that made all seven calls with storeModel returning OK and after exactly one
\* line was read as feedback; an acquire loop is left only by a getImage that
\* returned OK; a failed attempt puts the device at the start of a new attempt;
\* and when the sensor answers and the server supplies the lines read, every
\* enrollment that was started returns to loop().
C17_EnrollTerminates ==
    /\ [][ /\ (pc \in EnrollPcs /\ pc' \notin EnrollPcs) =>
                 /\ pc = "e_feedback"
                 /\ pc' = "scan"
                 /\ ops = AttemptCalls(id)
                 /\ storedAt = id
                 /\ tickLog' = Append(EnrollFull, Rd(feedback'))
           /\ (pc \in { "acq1", "acq2" } /\ pc' # pc) =>
                 /\ pc' = (IF pc = "acq1" THEN "tz1" ELSE "tz2")
                 /\ ops'[Len(ops')] = <<"getImage", 0, "OK">>
           /\ (pc \in EnrollPcs /\ failedNow') => pc' = "acq1" ]_vars
    /\ (pc = "enroll_read") ~> (pc = "scan")

\* an enrollment whose record and feedback were supplied while it waited has
\* returned to loop() after a failed attempt
C17_Witness ==
    /\ pc = "scan"
    /\ retried
    /\ sent = 0
    /\ fields[8] = L_OK
    /\ Len(tickLog) = 19
    /\ ops = AttemptCalls(id)

\* C18: a step taken with the connected flag false leaves the flag false and
\* the socket closed, writes no line, reads no line (no command is dispatched)
\* and starts neither a scan nor an enrollment; and whenever the flag is false
\* the last line the device wrote is the farewell "disconnect", written once.
C18_ClosedStaysClosed ==
    [][ ~is_connected =>
          /\ ~is_connected'
          /\ ~sockOpen /\ ~sockOpen'
          /\ ~available
          /\ written' = written
          /\ written[Len(written)] = L_disconnect
          /\ Count(netlog, "farewell") = 1
          /\ message' = message
          /\ feedback' = feedback
          /\ inbound' = inbound
          /\ tickLog' \in { tickLog, <<>> }
          /\ scanCalls' <= scanCalls
          /\ pc' \notin EnrollPcs \cup { "s_feedback", "s_name" } ]_vars

\* a later tick of a session closed by command has passed its dispatch and scan
\* positions with nothing read and nothing written
C18_Witness ==
    /\ ~is_connected
    /\ ticks = 3
    /\ pc = "end"
    /\ message = L_disconnect
    /\ tickLog = <<>>
    /\ scanCalls = 0
    /\ written[Len(written)] = L_disconnect

\* the lines loop() takes as commands
Commands == { L_disconnect, L_reboot, L_enroll }

\* C19: no line read as the feedback of a scan or of an enrollment, and no
\* line read as the display name of a scan, is a command line.
C19_CommandsReachDispatcher ==
    /\ feedback \notin Commands
    /\ lcd.l1 = "Welcome:        " => lcd.l2 \notin Commands

\* C20: every storeModel call of an enrollment, in the attempt that succeeds
\* and in every attempt that fails, is given the slot parsed from the first
\* line of the record; and when the report has been written its last line is
\* the decimal numeral of the slot the model was stored at.
C20_SlotMatchesIdLine ==
    /\ \A k \in 1..Len(ops) : ops[k][1] = "storeModel" => ops[k][2] = id
    /\ pc \in EnrollSensorPcs => id = ParseId(fields[1])
    /\ pc = "e_feedback" =>
          /\ ops[7] = <<"storeModel", id, "OK">>
          /\ storedAt = id
          /\ IsNumeral(written[Len(written)])
          /\ NumVal(written[Len(written)]) = storedAt

C20_Witness ==
    /\ pc = "e_feedback"
    /\ retried
    /\ fields[1] = << "3", "0", "0" >>
    /\ storedAt = 44
    /\ written[Len(written)] = << "4", "4" >>

====
